---- MODULE Spec2Model ----
(***************************************************************************)
(* The NBT decoder of src/de.rs as a state machine.                        *)
(*                                                                         *)
(* The decoder is a recursive descent over a byte source that is driven by *)
(* serde's construction protocol: the Deserialize implementation of the    *)
(* target type picks a deserialize_* method, the decoder reads bytes and   *)
(* calls one visit_* method, and a visitor that was handed a MapDecoder or *)
(* a SeqDecoder pulls keys, values and elements out of it.  The recursion  *)
(* of the Rust code is the variable stack (one frame for each MapDecoder   *)
(* or SeqDecoder that is alive), the InnerDecoder that a seed is currently *)
(* looking at is the variable inner, and every choice the target type or   *)
(* the byte source makes is a nondeterministic choice of an action.        *)
(*                                                                         *)
(* The byte source (crate::raw) is not part of de.rs.  It is modelled from *)
(* its contract: a read of n bytes returns them or fails with an I/O error *)
(* when the input is too short; the bytes that a read returns, and the     *)
(* place where the input ends, are drawn when they are read.               *)
(*                                                                         *)
(* A second specification, SpecRT, runs the round trip of a value tree:    *)
(* the tree is encoded in the format, and the decode of those bytes is     *)
(* computed, as a function of the bytes, for a visitor that asks for every *)
(* key, value and element generically and in order.                        *)
(***************************************************************************)
EXTENDS Integers, Sequences, FiniteSets, TLC

\* ---------------------------------------------------------------- bounds
MaxInput == 13      \* longest input slice, in bytes
MaxDepth == 2       \* most MapDecoder/SeqDecoder frames alive at once
MaxListLen == 1     \* largest small positive length a length field declares
MaxStrLen == 1      \* longest string payload, in bytes
MaxDeviations == 1  \* most departures of a visitor from the expected order
MaxEntries == 1     \* most entries of a compound of an encoded value tree

\* A SeqDecoder whose elements consume no bytes never runs out of input;
\* its element counter is explored up to this value.
MaxElems == MaxListLen + 1

\* ------------------------------------------------------- program constants
TagEnd == 0
TagByte == 1
TagShort == 2
TagInt == 3
TagLong == 4
TagFloat == 5
TagDouble == 6
TagByteArray == 7
TagString == 8
TagList == 9
TagCompound == 10
TagIntArray == 11
TagLongArray == 12

MinI32 == (-2147483647) - 1
MaxI32 == 2147483647

\* The values the byte source hands out.
ByteChoices == {-1} \cup (0..13)                       \* read_bare_byte: i8, a tag
PayloadBytes == {-1, 0, 1, 7}                           \* read_bare_byte: i8, a payload
HeaderTags == (0..13) \cup {255}                        \* emit_next_header: u8
IntChoices == {MinI32, -1, MaxI32} \cup (0..MaxListLen) \* read_bare_int: i32, a length
ScalarChoices == {-1, 0, 1}                             \* short, int, long, float, double
StrLens == 0..MaxStrLen
Forms == {"Borrowed", "Copied", "Owned"}                \* raw::Reference

VARIABLES
    pos,         \* bytes consumed from it so far (the reader's cursor)
    pc,          \* "top" | "visitor" | "seed" | "done"
    stack,       \* the MapDecoder / SeqDecoder frames alive, innermost last
    inner,       \* the InnerDecoder a seed is deserializing from
    result,      \* the outcome of the top-level call
    remainder,   \* offset of the slice from_slice returned, -1 until it did
    last,        \* what the last step did (read, reported)
    deviations,  \* times the visitor has left the order serde expects of it
    rootEndAt,   \* offset of the 0x00 byte that ended the root compound, or -1
    nested,      \* a compound, list or array has been opened inside the root
    rt           \* the round trip of a value tree under way (SpecRT only)

vars == <<pos, pc, stack, inner, result, remainder, last, deviations, rootEndAt, nested, rt>>

\* ------------------------------------------------------------ value shapes
\* No round trip is under way.
NoTrip == [tree |-> <<>>, wire |-> <<>>, told |-> <<>>]

NoInner == [tag |-> 0, role |-> "none"]
Running == [status |-> "running", err |-> "", a |-> 0, b |-> 0]
Ok == [status |-> "ok", err |-> "", a |-> 0, b |-> 0]
Err(e, a, b) == [status |-> "err", err |-> e, a |-> a, b |-> b]
Panic == [status |-> "panic", err |-> "unimplemented", a |-> 0, b |-> 0]
IoError == Err("Io", 0, 0)

\* What a step did: the method, the InnerDecoder tag it ran against, the
\* offset it started at, the bytes it consumed, the value it read, the visit_*
\* call it made and what it handed back to its caller.
Ev(op, tag, n, val, visit, ret) ==
    [op |-> op, tag |-> tag, at |-> pos, n |-> n, val |-> val, visit |-> visit,
     ret |-> ret, form |-> "", scratch |-> FALSE, hint |-> <<>>]
EvStr(op, tag, n, val, visit, form, scratch) ==
    [op |-> op, tag |-> tag, at |-> pos, n |-> n, val |-> val, visit |-> visit,
     ret |-> "Ok", form |-> form, scratch |-> scratch, hint |-> <<>>]
EvHint(tag, hint) ==
    [op |-> "size_hint", tag |-> tag, at |-> pos, n |-> 0, val |-> 0, visit |-> "none",
     ret |-> "Some", form |-> "", scratch |-> FALSE, hint |-> hint]
EvFail(op, tag, n, val) == Ev(op, tag, n, val, "none", "Err")

Top == stack[Len(stack)]
SetTop(f) == [stack EXCEPT ![Len(stack)] = f]

\* ------------------------------------------------------------- byte source
\* raw::Read, from its contract: a read of n bytes either returns them or
\* fails because the input is too short.  The length of the input is not
\* fixed in advance: wherever a read happens, the input may have ended there
\* (ReadFails) or go on (CanRead), up to MaxInput bytes in all.
CanRead(n) == pos + n <= MaxInput

\* emit_next_header: one tag byte, then a name string unless the tag is End.
HeaderBytes(tag, nameLen) == IF tag = TagEnd THEN 1 ELSE 1 + 2 + nameLen

\* read_bare_string: a 2-byte length, then that many bytes.
StringBytes(len) == 2 + len

\* SliceRead::get_inner: the part of the slice the reader has not consumed.
GetInner == pos

\* ------------------------------------------------------------ pure helpers
\* `tag as u8` of the i8 that read_bare_byte returns.
AsU8(b) == b % 256

\* A root check that lets every tag but End through.
RootTagOk_AnyValue(tag) == tag # TagEnd

\* Decoder::deserialize_map: the root must be a compound.
RootTagOk(tag) == tag = TagCompound

\* An End test against the wrong constant.
IsEnd_WrongTag(b) == b = TagByte

\* An End test that takes every byte up to 0x00, as a signed one, for End.
IsEnd_Signed(b) == b <= TagEnd

\* MapDecoder::next_key_seed: the End tag closes the compound.
IsEnd(b) == b = TagEnd

\* A key request that leaves the slot empty.
PendingTag_Unset(b) == <<>>

\* MapDecoder::next_key_seed: the tag remembered for the entry's value.
PendingTag(b) == <<AsU8(b)>>

\* MapDecoder::next_key_seed: keys are decoded as strings.
KeyDecoderTag == TagString

\* A value decoder built like the key decoder, with the string tag.
ValueDecoderTag_AsKey(f) == TagString

\* MapDecoder::next_value_seed: the InnerDecoder's tag is the remembered one.
ValueDecoderTag(f) == f.tag[1]

\* A done test that waits for the count to pass the length.
SeqDone_Past(f) == f.current > f.length

\* SeqDecoder::next_element_seed: nothing is left to yield.
SeqDone(f) == f.current = f.length

\* SeqDecoder::next_element_seed: every element is decoded with the shared tag.
ElementDecoderTag(f) == f.tag

\* SeqDecoder::size_hint: `self.length as usize`, the sign extension of an
\* i32 to 64 bits read as unsigned, as its four 16-bit digits, the most
\* significant first.
AsUsize(x) ==
    <<((x \div 65536) \div 65536) % 65536,
      ((x \div 65536) \div 65536) % 65536,
      (x \div 65536) % 65536,
      x % 65536>>

\* Typed arrays that are all arrays of bytes.
ImpliedTag_AllBytes(t) == TagByte

\* SeqDecoder::{byte_array, int_array, long_array}: the implied element tag.
ImpliedTag(t) ==
    CASE t = TagByteArray -> TagByte
      [] t = TagIntArray -> TagInt
      [] t = TagLongArray -> TagLong

\* A match whose last arm opens a compound instead of rejecting the tag.
AnyKind_NoReject(t) ==
    CASE t \in TagByte..TagDouble -> "scalar"
      [] t \in {TagByteArray, TagIntArray, TagLongArray} -> "array"
      [] t = TagString -> "string"
      [] t = TagList -> "list"
      [] OTHER -> "compound"

\* InnerDecoder::deserialize_any: the arm of the match a tag selects.
AnyKind(t) ==
    CASE t \in TagByte..TagDouble -> "scalar"
      [] t \in {TagByteArray, TagIntArray, TagLongArray} -> "array"
      [] t = TagString -> "string"
      [] t = TagList -> "list"
      [] t = TagCompound -> "compound"
      [] OTHER -> "invalid"

\* InnerDecoder::deserialize_any: payload width of a scalar tag.
ScalarWidth(t) ==
    CASE t = TagByte -> 1
      [] t = TagShort -> 2
      [] t = TagInt -> 4
      [] t = TagLong -> 8
      [] t = TagFloat -> 4
      [] t = TagDouble -> 8

\* InnerDecoder::deserialize_any: the visit call of a scalar tag.
ScalarVisit(t) ==
    CASE t = TagByte -> "visit_i8"
      [] t = TagShort -> "visit_i16"
      [] t = TagInt -> "visit_i32"
      [] t = TagLong -> "visit_i64"
      [] t = TagFloat -> "visit_f32"
      [] t = TagDouble -> "visit_f64"

\* The values the byte source may return for a scalar tag.
ScalarValues(t) ==
    CASE t = TagByte -> PayloadBytes
      [] OTHER -> ScalarChoices

\* InnerDecoder::deserialize_any, tag 0x08: the Reference is forwarded as is.
VisitOfReference(form) ==
    CASE form = "Borrowed" -> "visit_borrowed_str"
      [] form = "Copied" -> "visit_str"
      [] form = "Owned" -> "visit_string"

\* A string handed on in the form the reader returned it.
IntoOwned_Forward(form) == form

\* InnerDecoder::deserialize_string: value.into_owned(), then visit_string.
IntoOwned(form) == "Owned"

\* An optional value that is absent when the tag is End.
OptionVisit_EndIsNone(t) == IF t = TagEnd THEN "visit_none" ELSE "visit_some"

\* InnerDecoder::deserialize_option: what is reported for a value of tag t.
OptionVisit(t) == "visit_some"

\* A boolean accepted from every integer tag.
BoolTagOk_AnyInteger(t) == t \in TagByte..TagLong

\* InnerDecoder::deserialize_bool / deserialize_string: the tag they require.
BoolTagOk(t) == t = TagByte
StringTagOk(t) == t = TagString

\* A boolean read the C way: every nonzero byte is true.
BoolOf_NonZeroIsTrue(b) == IF b = 0 THEN "visit_bool(false)" ELSE "visit_bool(true)"

\* InnerDecoder::deserialize_bool: the byte read, as a boolean.
BoolOf(b) ==
    CASE b = 0 -> "visit_bool(false)"
      [] b = 1 -> "visit_bool(true)"
      [] OTHER -> "NonBooleanByte"

\* ------------------------------------------------------------------ frames
\* MapDecoder::new: no tag is pending.  The fields after role record the
\* frame's history and are read by no action: the bytes its constructor read,
\* how far the visitor is in the protocol, the last tag byte as it came off
\* the wire, whether the frame has started a read of its own or a value
\* decode (0 or 1), whether a key has been handed out, and the elements
\* handed out.
MapFrame(role, ctor) ==
    [kind |-> "map", ctor |-> ctor, tag |-> <<>>, length |-> 0, current |-> 0,
     role |-> role, hdr |-> 0, st |-> "await", raw |-> 0, reads |-> 0,
     keyed |-> FALSE, yielded |-> 0]

\* SeqDecoder::{list, byte_array, int_array, long_array}.
SeqFrame(role, ctor, tag, length, hdr) ==
    [kind |-> "seq", ctor |-> ctor, tag |-> tag, length |-> length, current |-> 0,
     role |-> role, hdr |-> hdr, st |-> "open", raw |-> 0, reads |-> 0,
     keyed |-> FALSE, yielded |-> 0]

\* The frame after the value a seed asked for has been decoded: next_key_seed
\* hands out the key, next_value_seed the value, and next_element_seed
\* counts the element.
Resume(f, role) ==
    CASE role = "key" -> [f EXCEPT !.st = "haveKey", !.keyed = TRUE]
      [] role = "value" -> [f EXCEPT !.st = "await"]
      [] role = "elem" -> [f EXCEPT !.current = @ + 1, !.yielded = @ + 1]

Finished(f) == f.st \in {"end", "done"}

\* The order serde expects of a visitor: a value after each key, nothing after
\* the end of a map, and no return before the end of a map or sequence.  A
\* visitor is free to leave it; the model follows it through MaxDeviations
\* departures.
Orderly(expected) ==
    /\ ~expected => deviations < MaxDeviations
    /\ deviations' = IF expected THEN deviations ELSE deviations + 1

\* ----------------------------------------------------------------- initial
InitDecoder ==
    /\ pos = 0
    /\ pc = "top"
    /\ stack = <<>>
    /\ inner = NoInner
    /\ result = Running
    /\ remainder = -1
    /\ last = [op |-> "new", tag |-> 0, at |-> 0, n |-> 0, val |-> 0, visit |-> "none",
               ret |-> "", form |-> "", scratch |-> FALSE, hint |-> <<>>]
    /\ deviations = 0
    /\ rootEndAt = -1
    /\ nested = FALSE

Init ==
    /\ InitDecoder
    /\ rt = NoTrip

\* ------------------------------------------------------------ step shapes
\* An error that the caller drops: the decode goes on where it was.
Abort_Swallowed(p, res, ev) ==
    /\ pos' = p
    /\ last' = ev
    /\ UNCHANGED <<pc, stack, inner, result, remainder, deviations, rootEndAt, nested, rt>>

\* The `?` of the Rust code: the error is the result of the whole call, and
\* every MapDecoder and SeqDecoder on the way out is dropped.  inner keeps the
\* InnerDecoder the error was raised from.
Abort(p, res, ev) ==
    /\ pos' = p
    /\ pc' = "done"
    /\ stack' = <<>>
    /\ result' = res
    /\ last' = ev
    /\ UNCHANGED <<inner, remainder, deviations, rootEndAt, nested, rt>>

\* seed.deserialize returned Ok: control is back in the visitor of the frame.
Complete(p, ev) ==
    /\ pos' = p
    /\ pc' = "visitor"
    /\ stack' = SetTop(Resume(Top, inner.role))
    /\ inner' = NoInner
    /\ last' = ev
    /\ UNCHANGED <<result, remainder, deviations, rootEndAt, nested, rt>>

\* visit_map / visit_seq is entered with a new access object.
Enter(p, frame, ev) ==
    /\ Len(stack) < MaxDepth
    /\ pos' = p
    /\ pc' = "visitor"
    /\ stack' = Append(stack, frame)
    /\ inner' = NoInner
    /\ last' = ev
    /\ nested' = (nested \/ Len(stack) > 0)
    /\ UNCHANGED <<result, remainder, deviations, rootEndAt, rt>>

\* ------------------------------------------------- Decoder (the top level)
\* Decoder::deserialize_map: read the header, require a compound.
DeserializeMapBody(op) ==
    /\ pc = "top"
    /\ \/ Abort(pos, IoError, EvFail(op, 0, 0, 0))
       \/ \E tag \in HeaderTags, nameLen \in StrLens :
            LET n == HeaderBytes(tag, nameLen) IN
            /\ CanRead(n)
            /\ IF RootTagOk(tag)
               THEN Enter(pos + n, MapFrame("root", "root"),
                          Ev(op, tag, n, 0, "visit_map", "pending"))
               ELSE Abort(pos + n, Err("NoRootCompound", 0, 0), EvFail(op, tag, n, 0))

DecoderDeserializeMap == DeserializeMapBody("deserialize_map")

\* Decoder::deserialize_struct: the same as a map.
DecoderDeserializeStruct == DeserializeMapBody("deserialize_struct")

\* Decoder::deserialize_any and every method forwarded to it.
DecoderDeserializeAny ==
    /\ pc = "top"
    /\ Abort(pos, Err("NoRootCompound", 0, 0), EvFail("top_deserialize_any", 0, 0, 0))

\* Decoder::deserialize_unit_struct: visit_unit, and from_slice returns.
DecoderDeserializeUnitStruct ==
    /\ pc = "top"
    /\ pc' = "done"
    /\ result' = Ok
    /\ remainder' = GetInner
    /\ last' = Ev("top_deserialize_unit_struct", 0, 0, 0, "visit_unit", "Ok")
    /\ UNCHANGED <<pos, stack, inner, deviations, rootEndAt, nested, rt>>

\* Decoder::deserialize_newtype_struct: the visitor gets the Decoder back.
DecoderDeserializeNewtypeStruct ==
    /\ pc = "top"
    /\ last' = Ev("top_deserialize_newtype_struct", 0, 0, 0, "visit_newtype_struct", "pending")
    /\ UNCHANGED <<pos, pc, stack, inner, result, remainder, deviations, rootEndAt, nested, rt>>

\* -------------------------------------------------------------- MapDecoder
\* MapDecoder::next_key_seed.
MapNextKeySeed ==
    /\ pc = "visitor"
    /\ Top.kind = "map"
    /\ \/ Abort(pos, IoError, EvFail("next_key_seed", 0, 0, 0))
       \/ \E b \in ByteChoices :
            /\ CanRead(1)
            /\ pos' = pos + 1
            /\ Orderly(Top.st = "await")
            /\ IF IsEnd(b)
               THEN /\ stack' = SetTop([Top EXCEPT !.st = "end", !.raw = b, !.reads = 1])
                    /\ last' = Ev("next_key_seed", 0, 1, b, "none", "None")
                    /\ rootEndAt' = IF Len(stack) = 1 /\ b = TagEnd /\ rootEndAt = -1
                                    THEN pos ELSE rootEndAt
                    /\ UNCHANGED <<pc, inner, result, remainder, nested, rt>>
               ELSE /\ stack' = SetTop([Top EXCEPT !.tag = PendingTag(b), !.st = "keying",
                                                   !.raw = b, !.reads = 1])
                    /\ inner' = [tag |-> KeyDecoderTag, role |-> "key"]
                    /\ pc' = "seed"
                    /\ last' = Ev("next_key_seed", KeyDecoderTag, 1, b, "none", "pending")
                    /\ UNCHANGED <<result, remainder, rootEndAt, nested, rt>>

\* MapDecoder::next_value_seed.
MapNextValueSeed ==
    /\ pc = "visitor"
    /\ Top.kind = "map"
    /\ IF Top.tag = <<>>
       THEN Abort(pos, Panic, EvFail("next_value_seed", 0, 0, 0))
       ELSE /\ inner' = [tag |-> ValueDecoderTag(Top), role |-> "value"]
            /\ pc' = "seed"
            /\ stack' = SetTop([Top EXCEPT
                    !.st = IF Top.st = "haveKey" THEN "valuing" ELSE "stray",
                    !.reads = 1])
            /\ last' = Ev("next_value_seed", ValueDecoderTag(Top), 0, 0, "none", "pending")
            /\ Orderly(Top.st = "haveKey")
            /\ UNCHANGED <<pos, result, remainder, rootEndAt, nested, rt>>

\* -------------------------------------------------------------- SeqDecoder
\* SeqDecoder::next_element_seed.
SeqNextElementSeed ==
    /\ pc = "visitor"
    /\ Top.kind = "seq"
    /\ IF SeqDone(Top)
       THEN /\ stack' = SetTop([Top EXCEPT !.st = "done"])
            /\ last' = Ev("next_element_seed", Top.tag, 0, 0, "none", "None")
            /\ UNCHANGED <<pos, pc, inner, result, remainder, deviations, rootEndAt, nested, rt>>
       ELSE /\ Top.current < MaxElems
            /\ inner' = [tag |-> ElementDecoderTag(Top), role |-> "elem"]
            /\ pc' = "seed"
            /\ stack' = SetTop([Top EXCEPT !.st = "open", !.reads = 1])
            /\ last' = Ev("next_element_seed", ElementDecoderTag(Top), 0, 0, "none", "pending")
            /\ UNCHANGED <<pos, result, remainder, deviations, rootEndAt, nested, rt>>

\* SeqDecoder::size_hint: nothing is read, nothing changes.
SeqSizeHint ==
    /\ pc = "visitor"
    /\ Top.kind = "seq"
    /\ last' = EvHint(Top.tag, AsUsize(Top.length))
    /\ UNCHANGED <<pos, pc, stack, inner, result, remainder, deviations, rootEndAt, nested, rt>>

\* ------------------------------------------------------------- the visitor
\* visit_map / visit_seq returns Ok: the access object is dropped, and the
\* value is the one its parent was waiting for; from_slice returns when the
\* root's visitor does.
VisitorReturn ==
    /\ pc = "visitor"
    /\ Orderly(Finished(Top))
    /\ inner' = NoInner
    /\ last' = Ev("visitor_return", 0, 0, 0, "none", "Ok")
    /\ IF Len(stack) = 1
       THEN /\ stack' = <<>>
            /\ pc' = "done"
            /\ result' = Ok
            /\ remainder' = GetInner
       ELSE /\ stack' = [SubSeq(stack, 1, Len(stack) - 1)
                           EXCEPT ![Len(stack) - 1] = Resume(@, Top.role)]
            /\ pc' = "visitor"
            /\ UNCHANGED <<result, remainder>>
    /\ UNCHANGED <<pos, rootEndAt, nested, rt>>

\* The visitor gives up with an error of its own (de::Error::custom).
VisitorError ==
    /\ pc = "visitor"
    /\ Abort(pos, Err("Custom", 0, 0), EvFail("visitor_error", 0, 0, 0))

\* ------------------------------------------------------------ InnerDecoder
\* InnerDecoder::deserialize_any (and every method forwarded to it), tags
\* 0x01..0x06: one scalar is read and reported.
AnyScalar ==
    /\ pc = "seed"
    /\ AnyKind(inner.tag) = "scalar"
    /\ \/ Abort(pos, IoError, EvFail("deserialize_any", inner.tag, 0, 0))
       \/ \E v \in ScalarValues(inner.tag) :
            LET n == ScalarWidth(inner.tag) IN
            /\ CanRead(n)
            /\ Complete(pos + n, Ev("deserialize_any", inner.tag, n, v,
                                    ScalarVisit(inner.tag), "Ok"))

\* deserialize_any, tag 0x08: read_bare_string with the scratch buffer.
AnyString ==
    /\ pc = "seed"
    /\ AnyKind(inner.tag) = "string"
    /\ \/ Abort(pos, IoError, EvFail("deserialize_any", inner.tag, 0, 0))
       \/ \E len \in StrLens, form \in Forms :
            /\ CanRead(StringBytes(len))
            /\ Complete(pos + StringBytes(len),
                        EvStr("deserialize_any", inner.tag, StringBytes(len), len,
                              VisitOfReference(form), form, TRUE))

\* deserialize_any, tags 0x07, 0x0b, 0x0c: SeqDecoder::byte_array, int_array,
\* long_array read the length; the element tag is implied.
AnyArray ==
    /\ pc = "seed"
    /\ AnyKind(inner.tag) = "array"
    /\ \/ Abort(pos, IoError, EvFail("deserialize_any", inner.tag, 0, 0))
       \/ \E length \in IntChoices :
            /\ CanRead(4)
            /\ Enter(pos + 4,
                     SeqFrame(inner.role, "array", ImpliedTag(inner.tag), length, 4),
                     Ev("deserialize_any", inner.tag, 4, length, "visit_seq", "pending"))

\* deserialize_any, tag 0x09: SeqDecoder::list reads the element tag and the
\* length.
AnyList ==
    /\ pc = "seed"
    /\ AnyKind(inner.tag) = "list"
    /\ \/ Abort(pos, IoError, EvFail("deserialize_any", inner.tag, 0, 0))
       \/ \E b \in ByteChoices, length \in IntChoices :
            /\ CanRead(1 + 4)
            /\ Enter(pos + 1 + 4,
                     SeqFrame(inner.role, "list", AsU8(b), length, 1 + 4),
                     Ev("deserialize_any", inner.tag, 1 + 4, length, "visit_seq", "pending"))

\* deserialize_any, tag 0x0a: a MapDecoder over the same Decoder.
AnyCompound ==
    /\ pc = "seed"
    /\ AnyKind(inner.tag) = "compound"
    /\ Enter(pos, MapFrame(inner.role, "compound"),
             Ev("deserialize_any", inner.tag, 0, 0, "visit_map", "pending"))

\* deserialize_any, any other tag.
AnyInvalid ==
    /\ pc = "seed"
    /\ AnyKind(inner.tag) = "invalid"
    /\ Abort(pos, Err("InvalidTypeId", inner.tag, 0), EvFail("deserialize_any", inner.tag, 0, 0))

\* InnerDecoder::deserialize_bool.
InnerDeserializeBool ==
    /\ pc = "seed"
    /\ IF BoolTagOk(inner.tag)
       THEN \/ Abort(pos, IoError, EvFail("deserialize_bool", inner.tag, 0, 0))
            \/ \E b \in PayloadBytes :
                 /\ CanRead(1)
                 /\ IF BoolOf(b) = "NonBooleanByte"
                    THEN Abort(pos + 1, Err("NonBooleanByte", b, 0),
                               EvFail("deserialize_bool", inner.tag, 1, b))
                    ELSE Complete(pos + 1,
                                  Ev("deserialize_bool", inner.tag, 1, b, BoolOf(b), "Ok"))
       ELSE Abort(pos, Err("TagMismatch", inner.tag, TagByte),
                  EvFail("deserialize_bool", inner.tag, 0, 0))

\* InnerDecoder::deserialize_string: read_bare_string without the scratch
\* buffer, into_owned, visit_string.
InnerDeserializeString ==
    /\ pc = "seed"
    /\ IF StringTagOk(inner.tag)
       THEN \/ Abort(pos, IoError, EvFail("deserialize_string", inner.tag, 0, 0))
            \/ \E len \in StrLens, form \in Forms :
                 /\ CanRead(StringBytes(len))
                 /\ Complete(pos + StringBytes(len),
                             EvStr("deserialize_string", inner.tag, StringBytes(len), len,
                                   VisitOfReference(IntoOwned(form)), form, FALSE))
       ELSE Abort(pos, Err("TagMismatch", inner.tag, TagString),
                  EvFail("deserialize_string", inner.tag, 0, 0))

\* A method that hands the InnerDecoder back to the visitor, which then
\* deserializes the inner value from it.
HandBack(op, visit) ==
    /\ pc = "seed"
    /\ last' = Ev(op, inner.tag, 0, 0, visit, "pending")
    /\ UNCHANGED <<pos, pc, stack, inner, result, remainder, deviations, rootEndAt, nested, rt>>

\* InnerDecoder::deserialize_option: always visit_some.
InnerDeserializeOption == HandBack("deserialize_option", OptionVisit(inner.tag))

\* InnerDecoder::deserialize_newtype_struct.
InnerDeserializeNewtypeStruct == HandBack("deserialize_newtype_struct", "visit_newtype_struct")

\* InnerDecoder::deserialize_unit: visit_unit, nothing is read.
InnerDeserializeUnit ==
    /\ pc = "seed"
    /\ Complete(pos, Ev("deserialize_unit", inner.tag, 0, 0, "visit_unit", "Ok"))

\* InnerDecoder::deserialize_unit_struct: visit_unit, nothing is read.
InnerDeserializeUnitStruct ==
    /\ pc = "seed"
    /\ Complete(pos, Ev("deserialize_unit_struct", inner.tag, 0, 0, "visit_unit", "Ok"))

\* ---------------------------------------------------------- specification
Next ==
    \/ DecoderDeserializeMap
    \/ DecoderDeserializeStruct
    \/ DecoderDeserializeAny
    \/ DecoderDeserializeUnitStruct
    \/ DecoderDeserializeNewtypeStruct
    \/ MapNextKeySeed
    \/ MapNextValueSeed
    \/ SeqNextElementSeed
    \/ SeqSizeHint
    \/ VisitorReturn
    \/ VisitorError
    \/ AnyScalar
    \/ AnyString
    \/ AnyArray
    \/ AnyList
    \/ AnyCompound
    \/ AnyInvalid
    \/ InnerDeserializeBool
    \/ InnerDeserializeString
    \/ InnerDeserializeOption
    \/ InnerDeserializeNewtypeStruct
    \/ InnerDeserializeUnit
    \/ InnerDeserializeUnitStruct

Spec == Init /\ [][Next]_vars

\* ============================================================= round trip
\* A value tree: a node has the tag of its type, the length of its key when
\* it is the value of a compound entry (-1 when it is an element), its
\* value (a scalar) or length (a string), the element tag (a list or typed
\* array), and its elements or entries in order.
Node(tag, key, val, etag, kids) ==
    [tag |-> tag, key |-> key, val |-> val, etag |-> etag, kids |-> kids]

SeqsUpTo(S, n) == UNION {[1..k -> S] : k \in 0..n}

Scalars(keys) ==
    UNION {{Node(t, k, v, 0, <<>>) : k \in keys, v \in ScalarValues(t)} :
              t \in TagByte..TagDouble}

Leaves(keys) ==
    Scalars(keys) \cup {Node(TagString, k, len, 0, <<>>) : k \in keys, len \in StrLens}

RECURSIVE Values(_, _)
\* The values with at most d levels of compounds, lists and arrays.
Values(d, keys) ==
    IF d = 0 THEN Leaves(keys)
    ELSE LET below == Values(d - 1, {-1})
             arrays ==
                 UNION {{Node(t, k, 0, ImpliedTag(t), kids) :
                            k \in keys,
                            kids \in SeqsUpTo({n \in Scalars({-1}) : n.tag = ImpliedTag(t)},
                                              MaxListLen)} :
                           t \in {TagByteArray, TagIntArray, TagLongArray}}
             lists ==
                 UNION {{Node(TagList, k, 0, e, kids) :
                            k \in keys,
                            kids \in SeqsUpTo({n \in below : n.tag = e}, MaxListLen)} :
                           e \in TagEnd..TagLongArray}
             compounds ==
                 {Node(TagCompound, k, 0, 0, kids) :
                     k \in keys, kids \in SeqsUpTo(Values(d - 1, StrLens), MaxEntries)}
         IN  Leaves(keys) \cup arrays \cup lists \cup compounds

\* The trees rooted at a compound, MaxDepth levels deep at most.
Trees ==
    {Node(TagCompound, -1, 0, 0, kids) :
        kids \in SeqsUpTo(Values(MaxDepth - 1, StrLens), MaxEntries)}

\* ------------------------------------------------------------ the encoding
\* Big-endian two's complement, and the IEEE-754 bits of -1.0, 0.0 and 1.0.
BE2(v) == <<(v \div 256) % 256, v % 256>>
BE4(v) == <<(v \div 16777216) % 256, (v \div 65536) % 256, (v \div 256) % 256, v % 256>>
BE8(v) == BE4(IF v < 0 THEN -1 ELSE 0) \o BE4(v)

FloatBits(v) ==
    CASE v = 0 -> 0
      [] v = 1 -> 1065353216
      [] v = -1 -> -1082130432

DoubleHighBits(v) ==
    CASE v = 0 -> 0
      [] v = 1 -> 1072693248
      [] v = -1 -> -1074790400

EncodeScalar(t, v) ==
    CASE t = TagByte -> <<v % 256>>
      [] t = TagShort -> BE2(v)
      [] t = TagInt -> BE4(v)
      [] t = TagLong -> BE8(v)
      [] t = TagFloat -> BE4(FloatBits(v))
      [] t = TagDouble -> BE4(DoubleHighBits(v)) \o BE4(0)

\* A string of len bytes: its length as an unsigned short, then the bytes.
EncodeString(len) == BE2(len) \o [i \in 1..len |-> 97]

RECURSIVE EncodePayload(_), EncodeElements(_, _), EncodeEntries(_, _)
EncodePayload(n) ==
    CASE n.tag \in TagByte..TagDouble -> EncodeScalar(n.tag, n.val)
      [] n.tag = TagString -> EncodeString(n.val)
      [] n.tag \in {TagByteArray, TagIntArray, TagLongArray} ->
            BE4(Len(n.kids)) \o EncodeElements(n.kids, 1)
      [] n.tag = TagList ->
            <<n.etag>> \o BE4(Len(n.kids)) \o EncodeElements(n.kids, 1)
      [] n.tag = TagCompound -> EncodeEntries(n.kids, 1) \o <<TagEnd>>

EncodeElements(kids, i) ==
    IF i > Len(kids) THEN <<>>
    ELSE EncodePayload(kids[i]) \o EncodeElements(kids, i + 1)

EncodeEntries(kids, i) ==
    IF i > Len(kids) THEN <<>>
    ELSE <<kids[i].tag>> \o EncodeString(kids[i].key) \o EncodePayload(kids[i])
         \o EncodeEntries(kids, i + 1)

\* The root compound under the empty name.
EncodeRoot(t) == <<TagCompound>> \o EncodeString(0) \o EncodePayload(t)

\* ------------------------------------------------- the reader over a slice
\* w is the slice and p the number of its bytes consumed.
HasBytes(w, p, n) == p + n <= Len(w)
ReadBareByte(w, p) == IF w[p + 1] >= 128 THEN w[p + 1] - 256 ELSE w[p + 1]
ReadBareShort(w, p) == ReadBareByte(w, p) * 256 + w[p + 2]
ReadBareInt(w, p) ==
    ReadBareByte(w, p) * 16777216 + w[p + 2] * 65536 + w[p + 3] * 256 + w[p + 4]
\* A 64-bit value as its two 32-bit halves, the high one first.
ReadBareLong(w, p) == <<ReadBareInt(w, p), ReadBareInt(w, p + 4)>>
ReadStringLen(w, p) == w[p + 1] * 256 + w[p + 2]

\* What read_bare_byte .. read_bare_double return for a scalar tag (a float
\* as its bits).
ReadScalar(t, w, p) ==
    CASE t = TagByte -> <<ReadBareByte(w, p)>>
      [] t = TagShort -> <<ReadBareShort(w, p)>>
      [] t \in {TagInt, TagFloat} -> <<ReadBareInt(w, p)>>
      [] t \in {TagLong, TagDouble} -> ReadBareLong(w, p)

\* ------------------------------------ the decode of a slice, as a function
\* The outcome of a decode: the error ("" for none), the bytes consumed, and
\* what the visitor was told, in order: every visit call with its argument
\* (for visit_seq the size hint the SeqDecoder gives), and every None.
Outcome(err, p, told) == [err |-> err, pos |-> p, told |-> told]
Told(visit, val) == [visit |-> visit, val |-> val]

RECURSIVE AnyOf(_, _, _), ElementsOf(_, _, _), EntriesOf(_, _, _)
\* InnerDecoder::deserialize_any, called by a visitor that takes every value
\* as it comes: each key, value and element is asked for with a generic
\* request, in order, until None.
AnyOf(tag, w, p) ==
    CASE AnyKind(tag) = "scalar" ->
            IF ~HasBytes(w, p, ScalarWidth(tag))
            THEN Outcome("Io", p, <<>>)
            ELSE Outcome("", p + ScalarWidth(tag),
                         <<Told(ScalarVisit(tag), ReadScalar(tag, w, p))>>)
      [] AnyKind(tag) = "string" ->
            IF ~HasBytes(w, p, 2)
            THEN Outcome("Io", p, <<>>)
            ELSE LET len == ReadStringLen(w, p) IN
                 IF ~HasBytes(w, p, StringBytes(len))
                 THEN Outcome("Io", p, <<>>)
                 ELSE Outcome("", p + StringBytes(len),
                              <<Told(VisitOfReference("Borrowed"), <<len>>)>>)
      [] AnyKind(tag) = "array" ->
            IF ~HasBytes(w, p, 4)
            THEN Outcome("Io", p, <<>>)
            ELSE LET f == SeqFrame("none", "array", ImpliedTag(tag), ReadBareInt(w, p), 4)
                     r == ElementsOf(f, w, p + 4)
                 IN  Outcome(r.err, r.pos,
                             <<Told("visit_seq", AsUsize(f.length))>> \o r.told)
      [] AnyKind(tag) = "list" ->
            IF ~HasBytes(w, p, 1 + 4)
            THEN Outcome("Io", p, <<>>)
            ELSE LET f == SeqFrame("none", "list", AsU8(ReadBareByte(w, p)),
                                   ReadBareInt(w, p + 1), 1 + 4)
                     r == ElementsOf(f, w, p + 1 + 4)
                 IN  Outcome(r.err, r.pos,
                             <<Told("visit_seq", AsUsize(f.length))>> \o r.told)
      [] AnyKind(tag) = "compound" ->
            LET r == EntriesOf(MapFrame("none", "compound"), w, p)
            IN  Outcome(r.err, r.pos, <<Told("visit_map", <<>>)>> \o r.told)
      [] AnyKind(tag) = "invalid" -> Outcome("InvalidTypeId", p, <<>>)

\* SeqDecoder::next_element_seed, until it yields None.
ElementsOf(f, w, p) ==
    IF SeqDone(f)
    THEN Outcome("", p, <<Told("None", <<>>)>>)
    ELSE LET e == AnyOf(ElementDecoderTag(f), w, p) IN
         IF e.err # ""
         THEN e
         ELSE LET r == ElementsOf(Resume(f, "elem"), w, e.pos)
              IN  Outcome(r.err, r.pos, e.told \o r.told)

\* MapDecoder::next_key_seed and next_value_seed in turn, until the key
\* request yields None.
EntriesOf(f, w, p) ==
    IF ~HasBytes(w, p, 1)
    THEN Outcome("Io", p, <<>>)
    ELSE LET b == ReadBareByte(w, p) IN
         IF IsEnd(b)
         THEN Outcome("", p + 1, <<Told("None", <<>>)>>)
         ELSE LET g == [f EXCEPT !.tag = PendingTag(b)]
                  k == AnyOf(KeyDecoderTag, w, p + 1)
              IN  IF k.err # ""
                  THEN k
                  ELSE LET v == AnyOf(ValueDecoderTag(g), w, k.pos) IN
                       IF v.err # ""
                       THEN v
                       ELSE LET r == EntriesOf(g, w, v.pos)
                            IN  Outcome(r.err, r.pos, k.told \o v.told \o r.told)

\* Decoder::deserialize_map: the header, then the root compound.
DeserializeMapOf(w) ==
    IF ~HasBytes(w, 0, 1)
    THEN Outcome("Io", 0, <<>>)
    ELSE LET tag == AsU8(ReadBareByte(w, 0)) IN
         IF tag # TagEnd /\ ~HasBytes(w, 1, 2)
         THEN Outcome("Io", 0, <<>>)
         ELSE LET n == HeaderBytes(tag, IF tag = TagEnd THEN 0 ELSE ReadStringLen(w, 1)) IN
              IF ~HasBytes(w, 0, n)
              THEN Outcome("Io", 0, <<>>)
              ELSE IF RootTagOk(tag)
                   THEN LET r == EntriesOf(MapFrame("root", "root"), w, n)
                        IN  Outcome(r.err, r.pos, <<Told("visit_map", <<>>)>> \o r.told)
                   ELSE Outcome("NoRootCompound", n, <<>>)

\* --------------------------------------------------- the round trip, run
InitRT ==
    /\ InitDecoder
    /\ rt \in {[tree |-> t, wire |-> <<>>, told |-> <<>>] : t \in Trees}

\* The tree is written out in the format.
Encode ==
    /\ pc = "top"
    /\ rt.wire = <<>>
    /\ rt' = [rt EXCEPT !.wire = EncodeRoot(rt.tree)]
    /\ UNCHANGED <<pos, pc, stack, inner, result, remainder, last, deviations,
                   rootEndAt, nested>>

\* from_slice over the encoding, with a map request at the top.
FromSlice ==
    /\ pc = "top"
    /\ rt.wire # <<>>
    /\ LET r == DeserializeMapOf(rt.wire) IN
       /\ pc' = "done"
       /\ pos' = r.pos
       /\ result' = IF r.err = "" THEN Ok ELSE Err(r.err, 0, 0)
       /\ remainder' = IF r.err = "" THEN r.pos ELSE -1
       /\ rt' = [rt EXCEPT !.told = r.told]
    /\ UNCHANGED <<stack, inner, last, deviations, rootEndAt, nested>>

NextRT ==
    \/ Encode
    \/ FromSlice

SpecRT == InitRT /\ [][NextRT]_vars

\* ================================================================== claims
\* The unsigned value of a byte that the reader returned as an i8.
WireU8(b) == IF b < 0 THEN b + 256 ELSE b

HeaderOps == {"deserialize_map", "deserialize_struct"}

\* C1: when the header read of a top-level map or struct decode returns a tag
\* other than 0x0a, the call has failed with NoRootCompound, no visit method
\* was called, no frame exists, and the cursor stands where the header ended.
C1_RootRejection ==
    (last.op \in HeaderOps /\ last.n > 0 /\ last.tag # 10) =>
        /\ pc = "done"
        /\ result = Err("NoRootCompound", 0, 0)
        /\ last.visit = "none"
        /\ stack = <<>>
        /\ pos = last.at + last.n
        /\ remainder = -1

\* A bare Int at the root has been rejected.
C1_Witness ==
    /\ last.op = "deserialize_map"
    /\ last.tag = 3
    /\ last.n > 0
    /\ result = Err("NoRootCompound", 0, 0)

\* C2: an entry of a compound is read as one tag byte, then the key through
\* an InnerDecoder with tag 0x08 whatever the tag byte was, then the value
\* through an InnerDecoder whose tag is the tag byte of that entry: the key
\* decode starts on the byte after the tag, and a value that is asked for
\* after its key (st = "valuing") is decoded with the tag byte read for that
\* key.
C2_EntryOrder ==
    /\ (pc = "seed" /\ inner.role = "key") =>
          /\ inner.tag = 8
          /\ Top.st = "keying"
          /\ Top.tag = <<WireU8(Top.raw)>>
          /\ last.op = "next_key_seed" =>
                (last.n = 1 /\ last.val = Top.raw /\ pos = last.at + 1)
    /\ (pc = "seed" /\ inner.role = "value" /\ Top.st = "valuing") =>
          /\ inner.tag = WireU8(Top.raw)
          /\ Top.tag = <<inner.tag>>
          /\ Top.keyed
    /\ (pc = "seed" /\ inner.role = "value" /\ deviations = 0) => Top.st = "valuing"
    /\ (pc = "visitor" /\ Len(stack) > 0 /\ Top.kind = "map" /\ Top.st = "haveKey") =>
          Top.tag = <<WireU8(Top.raw)>>

\* The value of an entry tagged 0x03 is about to be decoded, with tag 0x03,
\* by a visitor that has kept to the order.
C2_Witness ==
    /\ pc = "seed"
    /\ inner.role = "value"
    /\ Top.raw = 3
    /\ inner.tag = 3
    /\ Top.keyed
    /\ deviations = 0
\* C3: a list or typed array with declared length N decodes every element
\* with its one tag, counts an element only once it is decoded, yields done
\* exactly when the count equals N, without reading, and never yields more
\* than N elements, for every 32-bit N.
C3_SeqCount ==
    /\ \A i \in 1..Len(stack) :
          stack[i].kind = "seq" =>
             /\ stack[i].yielded > 0 => stack[i].yielded <= stack[i].length
             /\ stack[i].current = stack[i].yielded
    /\ (pc = "seed" /\ inner.role = "elem") => inner.tag = Top.tag
    /\ (pc = "visitor" /\ last.op = "next_element_seed" /\ last.ret = "None") =>
          /\ Top.yielded = Top.length
          /\ last.n = 0
          /\ pos = last.at

\* C4: a boolean asked of tag 0x01 reads one byte; 0 is reported as false, 1
\* as true, and every other byte b fails with NonBooleanByte(b).  (When the
\* input has ended the read itself fails, with the reader's error.)
C4_Bool ==
    (last.op = "deserialize_bool" /\ last.tag = 1 /\ result # IoError) =>
        /\ last.n = 1
        /\ pos = last.at + 1
        /\ last.val = 0 => (last.visit = "visit_bool(false)" /\ result = Running)
        /\ last.val = 1 => (last.visit = "visit_bool(true)" /\ result = Running)
        /\ last.val \notin {0, 1} =>
              /\ last.visit = "none"
              /\ pc = "done"
              /\ result = Err("NonBooleanByte", last.val, 0)

\* The byte 7 has been refused as a boolean.
C4_Witness ==
    /\ last.op = "deserialize_bool"
    /\ last.tag = 1
    /\ last.val = 7
    /\ result = Err("NonBooleanByte", 7, 0)

\* C5: a boolean asked of a tag other than 0x01 fails with
\* TagMismatch(tag, 0x01), an owned string asked of a tag other than 0x08
\* fails with TagMismatch(tag, 0x08), and neither reads a byte.
C5_TagMismatch ==
    /\ (last.op = "deserialize_bool" /\ last.tag # 1) =>
          /\ pc = "done"
          /\ result = Err("TagMismatch", last.tag, 1)
          /\ last.visit = "none"
          /\ last.n = 0
          /\ pos = last.at
    /\ (last.op = "deserialize_string" /\ last.tag # 8) =>
          /\ pc = "done"
          /\ result = Err("TagMismatch", last.tag, 8)
          /\ last.visit = "none"
          /\ last.n = 0
          /\ pos = last.at

\* A boolean was asked of an Int.
C5_Witness ==
    /\ last.op = "deserialize_bool"
    /\ inner.role = "value"
    /\ result = Err("TagMismatch", 3, 1)
\* C6: a key request whose tag byte is 0x00 yields no more entries and
\* reads that one byte only; when it is the first request of the compound,
\* the compound has handed out no key (an empty map) and that byte is all
\* its decoder has consumed.
C6_EmptyCompound ==
    (last.op = "next_key_seed" /\ last.n = 1 /\ last.val = 0) =>
        /\ pc = "visitor"
        /\ last.ret = "None"
        /\ Top.kind = "map"
        /\ Top.st = "end"
        /\ Top.hdr = 0
        /\ pos = last.at + 1
        /\ result = Running

\* A nested compound ended on its first key request.
C6_Witness ==
    /\ pc = "visitor"
    /\ Len(stack) = 2
    /\ Top.kind = "map"
    /\ Top.st = "end"
    /\ ~Top.keyed
    /\ last.op = "next_key_seed"
    /\ last.ret = "None"
    /\ deviations = 0

\* C7: a list declared with length 0 is opened by reading 5 bytes, whatever
\* its element-tag byte is (the generic decode of tag 0x09 fails on a reader
\* error only); it starts no element decode, and its element request yields
\* done without reading.
C7_EmptyList ==
    /\ (last.op = "deserialize_any" /\ last.tag = 9) =>
          \/ result = IoError
          \/ /\ result = Running
             /\ pc = "visitor"
             /\ Top.ctor = "list"
             /\ last.n = 5
             /\ pos = last.at + 5
    /\ (pc # "done" /\ Len(stack) > 0 /\ Top.ctor = "list" /\ Top.length = 0) =>
          /\ pc = "visitor"
          /\ Top.hdr = 5
          /\ Top.reads = 0
          /\ Top.yielded = 0
          /\ Top.current = 0
          /\ last.op = "next_element_seed" =>
                /\ last.ret = "None"
                /\ last.n = 0
                /\ pos = last.at
                /\ Top.st = "done"

\* A list of length 0 whose element tag is 0x00 has yielded done.
C7_Witness ==
    /\ pc = "visitor"
    /\ Top.ctor = "list"
    /\ Top.length = 0
    /\ Top.tag = 0
    /\ Top.st = "done"
    /\ last.op = "next_element_seed"

\* C8: when from_slice returns Ok from a root compound whose maps and
\* sequences the visitor has all consumed to the end, in order, the slice it
\* returns starts on the byte after the 0x00 that ended the root compound,
\* and the reader has consumed nothing beyond that byte.
C8_Remainder ==
    (result = Ok /\ last.op = "visitor_return" /\ deviations = 0) =>
        /\ rootEndAt >= 0
        /\ remainder = rootEndAt + 1
        /\ pos = remainder

\* from_slice has returned from a root compound with something nested in it.
C8_Witness ==
    /\ result = Ok
    /\ last.op = "visitor_return"
    /\ deviations = 0
    /\ nested
    /\ remainder = rootEndAt + 1

\* C9: the generic decode of the value of an entry whose tag byte is none of
\* 0x00..0x0c fails with InvalidTypeId carrying that byte, and reads nothing.
C9_InvalidTypeId ==
    [][(/\ pc = "seed"
        /\ inner.role = "value"
        /\ Top.raw \notin 0..12
        /\ last'.op = "deserialize_any")
       => (/\ pc' = "done"
           /\ result' = Err("InvalidTypeId", WireU8(Top.raw), 0)
           /\ last'.visit = "none"
           /\ pos' = pos)]_vars

\* The value of an entry tagged 0xff has been refused.
C9_Witness ==
    /\ result = Err("InvalidTypeId", 255, 0)
    /\ inner.role = "value"
    /\ last.op = "deserialize_any"

\* C10: an owned-string request of tag 0x08 reads without the scratch buffer
\* and reports visit_string whatever form the reader returned; a generic
\* request of tag 0x08 reads with the scratch buffer and reports the form
\* the reader returned.
C10_StringForms ==
    /\ (last.op = "deserialize_string" /\ last.tag = 8 /\ last.ret = "Ok") =>
          /\ ~last.scratch
          /\ last.form \in Forms
          /\ last.visit = "visit_string"
    /\ (last.op = "deserialize_any" /\ last.tag = 8 /\ last.ret = "Ok") =>
          /\ last.scratch
          /\ last.form = "Borrowed" => last.visit = "visit_borrowed_str"
          /\ last.form = "Copied" => last.visit = "visit_str"
          /\ last.form = "Owned" => last.visit = "visit_string"

\* A string the reader returned borrowed has been reported as owned.
C10_Witness ==
    /\ last.op = "deserialize_string"
    /\ inner.role = "none"
    /\ last.form = "Borrowed"
    /\ last.visit = "visit_string"
    /\ ~last.scratch

\* C11: a step that fails, in a compound entry, in a list element or at the
\* top, makes its error the result of the whole call at once: every access
\* object is gone, the cursor stands where the failing read left it, no
\* value and no remainder is returned, and no operation of the decoder can
\* run any more.
C11_ErrorPropagation ==
    /\ (last.ret = "Err") <=> (result.status \in {"err", "panic"})
    /\ result.status = "err" =>
          /\ pc = "done"
          /\ stack = <<>>
          /\ remainder = -1
          /\ pos = last.at + last.n
          /\ ~ENABLED Next

\* A read failed while an element of a list inside the root was decoded.
C11_Witness ==
    /\ result = IoError
    /\ inner.role = "elem"
    /\ nested
    /\ last.op = "deserialize_any"
    /\ pos > 0

\* C12: a top-level request for anything but a map or a struct has failed
\* with NoRootCompound by the time the call returns.
C12_OnlyMapsAndStructs ==
    (pc = "done" /\ last.op \in {"top_deserialize_any", "top_deserialize_unit_struct"}) =>
        result = Err("NoRootCompound", 0, 0)

\* C14: a compound decoder that has read its 0x00 and yielded no more
\* entries reads nothing afterwards: no request the visitor makes of it
\* moves the cursor.
C14_EndIsTerminal ==
    [][(/\ pc = "visitor"
        /\ Len(stack) > 0
        /\ Top.kind = "map"
        /\ Top.st = "end"
        /\ Len(stack') = Len(stack))
       => pos' = pos]_vars

\* C19: when a value is requested of a compound decoder that has handed out
\* a key, its pending-tag slot holds a tag, the tag is not 0x00, and the
\* request does not reach unimplemented!().
C19_PendingTag ==
    [][(/\ pc = "visitor"
        /\ Len(stack) > 0
        /\ Top.kind = "map"
        /\ Top.keyed
        /\ last'.op = "next_value_seed")
       => (/\ Top.tag # <<>>
           /\ Top.tag[1] # 0
           /\ result' # Panic
           /\ inner'.tag = Top.tag[1])]_vars

\* The value of an entry tagged 0x0a is requested of a compound nested in
\* the root, after its key.
C19_Witness ==
    /\ pc = "seed"
    /\ last.op = "next_value_seed"
    /\ Len(stack) = 2
    /\ Top.kind = "map"
    /\ Top.keyed
    /\ Top.st = "valuing"
    /\ Top.tag = <<10>>

\* C18: an optional-value request reports visit_some for every wire tag,
\* reads nothing, and leaves the InnerDecoder, with the tag it had, to
\* decode the inner value; it never ends the decode and never reports
\* visit_none.
C18_OptionIsSome ==
    (last.op = "deserialize_option") =>
        /\ last.visit = "visit_some"
        /\ last.n = 0
        /\ pos = last.at
        /\ pc = "seed"
        /\ inner.tag = last.tag
        /\ inner.role \in {"key", "value", "elem"}
        /\ result = Running

\* An element of a list whose element tag is 0x00 was asked for as an
\* optional value.
C18_Witness ==
    /\ last.op = "deserialize_option"
    /\ last.visit = "visit_some"
    /\ inner.tag = 0
    /\ inner.role = "elem"

\* C17: a generic request of a tag in 0x01..0x0c fails on a reader error
\* only, and otherwise consumes the payload of its tag and reports its kind:
\* an integer of 1, 2, 4 or 8 bytes for 0x01..0x04, a float of 4 or 8 bytes
\* for 0x05 and 0x06, a string of 2 + length bytes for 0x08, a map that has
\* read nothing for 0x0a, a sequence that has read an element tag and a
\* 4-byte length for 0x09, and a sequence that has read a 4-byte length
\* only, with element tag 0x01, 0x03 or 0x04, for 0x07, 0x0b and 0x0c.
C17_TagTable ==
    (last.op = "deserialize_any" /\ last.tag \in 1..12) =>
        IF last.ret = "Err"
        THEN result = IoError /\ last.n = 0 /\ pos = last.at /\ last.visit = "none"
        ELSE /\ result = Running
             /\ pc = "visitor"
             /\ pos = last.at + last.n
             /\ last.tag = 1 => (last.n = 1 /\ last.visit = "visit_i8")
             /\ last.tag = 2 => (last.n = 2 /\ last.visit = "visit_i16")
             /\ last.tag = 3 => (last.n = 4 /\ last.visit = "visit_i32")
             /\ last.tag = 4 => (last.n = 8 /\ last.visit = "visit_i64")
             /\ last.tag = 5 => (last.n = 4 /\ last.visit = "visit_f32")
             /\ last.tag = 6 => (last.n = 8 /\ last.visit = "visit_f64")
             /\ last.tag = 8 =>
                   /\ last.n = 2 + last.val
                   /\ last.visit \in {"visit_borrowed_str", "visit_str", "visit_string"}
             /\ last.tag = 10 =>
                   /\ last.n = 0
                   /\ last.visit = "visit_map"
                   /\ Top.kind = "map"
                   /\ Top.tag = <<>>
             /\ last.tag = 9 =>
                   /\ last.n = 5
                   /\ last.visit = "visit_seq"
                   /\ Top.kind = "seq"
                   /\ Top.hdr = 5
                   /\ Top.length = last.val
                   /\ Top.current = 0
             /\ last.tag \in {7, 11, 12} =>
                   /\ last.n = 4
                   /\ last.visit = "visit_seq"
                   /\ Top.kind = "seq"
                   /\ Top.hdr = 4
                   /\ Top.length = last.val
                   /\ Top.current = 0
                   /\ Top.tag = (CASE last.tag = 7 -> 1
                                   [] last.tag = 11 -> 3
                                   [] last.tag = 12 -> 4)

\* A long array has been opened: four bytes read, elements of tag 0x04.
C17_Witness ==
    /\ pc = "visitor"
    /\ last.op = "deserialize_any"
    /\ last.tag = 12
    /\ last.n = 4
    /\ Top.kind = "seq"
    /\ Top.tag = 4
    /\ Top.length = 1

\* The number a usize stands for, when it is one an i32 can hold.
IsUsizeOf(h, x) ==
    /\ h[1] = 0
    /\ h[2] = 0
    /\ h[3] < 32768
    /\ h[3] * 65536 + h[4] = x

\* C15: the size hint of a list or typed array is the length that was
\* declared on the wire, for every 32-bit length, whether it is asked for
\* before the first element or after some.
C15_SizeHint ==
    (last.op = "size_hint") =>
        /\ IsUsizeOf(last.hint, Top.length)
        /\ pos = last.at

\* C16: the decoder refuses to nest beyond a depth limit.  Decoder,
\* MapDecoder, SeqDecoder and InnerDecoder have no field that counts depth,
\* so a limit can show only in what is refused: for a limit below MaxDepth,
\* a generic request that would open a compound or a sequence at level
\* MaxDepth has failed with a DepthExceeded error, and MaxDepth access
\* objects are never open at once.
C16_DepthLimit ==
    /\ Len(stack) < MaxDepth
    /\ (last.op = "deserialize_any" /\ last.tag \in {7, 9, 10, 11, 12} /\ nested) =>
          result.err = "DepthExceeded"

\* What the visitor is told in the decode of the encoding of each tree.
ToldOf == [t \in Trees |-> DeserializeMapOf(EncodeRoot(t)).told]

\* C13: the decode of the encoding of a tree succeeds, consumes the whole
\* encoding, and reproduces the tree.  What a decode reproduces is made
\* from what the visitor is told and from nothing else, so the tree that
\* was encoded is the only tree whose decode tells the visitor just that:
\* a tree that differs in the tag of a node, in a key or a value, or in the
\* length or an element of a list is told differently.
C13_RoundTrip ==
    (pc = "done") =>
        /\ result = Ok
        /\ remainder = Len(rt.wire)
        /\ \A t \in Trees : ToldOf[t] = rt.told => t = rt.tree

====
